---- MODULE Spec2Model ----
(***************************************************************************)
(* StencilApp (StencilDemo/StencilApp.cpp): the per-frame Update/Draw loop *)
(* of the stencil demo, its ring of frame resources, the fence that keeps  *)
(* the CPU from overwriting a frame resource the GPU still reads, the      *)
(* command list recorded by Draw and the constant-buffer updates.          *)
(*                                                                         *)
(* The GPU is the other process of the system: it consumes the command     *)
(* queue in FIFO order and completes a fence value when it reaches the     *)
(* Signal that carries it.                                                 *)
(*                                                                         *)
(* BoxApp (same file, from line 466) is the second program: one command    *)
(* allocator, one object constant buffer, a FlushCommandQueue after every  *)
(* frame.  Both programs share the orbit camera driven by the mouse and    *)
(* the PRESENT / RENDER_TARGET protocol of the swap-chain buffers.         *)
(***************************************************************************)
EXTENDS Integers, Sequences, FiniteSets, TLC

\* ---------------------------------------------------------------- bounds
\* mCurrentFence is capped so that the state space is finite.
MaxFence == 6
\* number of distinct aspect ratios a resize can produce
MaxAspect == 1
\* the skull stays within |x| <= MaxX and y <= MaxY (in whole units)
MaxX == 0
MaxY == 1
\* the mouse reports positions 0 .. MaxMouse grid steps along each axis
MaxMouse == 1
\* mTheta is followed for MaxTurns grid steps either way
MaxTurns == 1

\* ------------------------------------------------------ program constants
gNumFrameResources == 3

\* D3DApp::SwapChainBufferCount
SwapChainBufferCount == 2

FrameResourceIds == 0 .. (gNumFrameResources - 1)
\* mCurrFrameResource = nullptr
NullFrameResource == -1

\* matrices are 4x4, row-major, in fixed point: One stands for 1.0f
One == 1000

Rows == 1 .. 4

Identity4x4 ==
    << <<One, 0, 0, 0>>, <<0, One, 0, 0>>, <<0, 0, One, 0>>, <<0, 0, 0, One>> >>

XMMatrixTranslation(x, y, z) ==
    << <<One, 0, 0, 0>>, <<0, One, 0, 0>>, <<0, 0, One, 0>>, <<x, y, z, One>> >>

XMMatrixScaling(x, y, z) ==
    << <<x, 0, 0, 0>>, <<0, y, 0, 0>>, <<0, 0, z, 0>>, <<0, 0, 0, One>> >>

\* XMMatrixRotationY(0.5f * Pi): cos = 0, sin = 1
XMMatrixRotationYHalfPi ==
    << <<0, 0, -One, 0>>, <<0, One, 0, 0>>, <<One, 0, 0, 0>>, <<0, 0, 0, One>> >>

XMMatrixMultiply(a, b) ==
    [i \in Rows |-> [j \in Rows |->
        (a[i][1] * b[1][j] + a[i][2] * b[2][j]
         + a[i][3] * b[3][j] + a[i][4] * b[4][j]) \div One]]

XMMatrixTranspose(m) == [i \in Rows |-> [j \in Rows |-> m[j][i]]]

\* XMMatrixReflect(plane): plane = <<a, b, c, d>>, already of unit length
XMMatrixReflect(P) ==
    [i \in Rows |-> [j \in Rows |->
        (IF i = j THEN One ELSE 0)
        + (P[i] * (IF j = 4 THEN 0 ELSE (0 - 2) * P[j])) \div One]]

XMPlaneDot(P, L) == (P[1] * L[1] + P[2] * L[2] + P[3] * L[3] + P[4] * L[4]) \div One

\* XMMatrixShadow(plane, light): plane of unit length, light.w = 0 for a
\* directional light
XMMatrixShadow(P, L) ==
    [i \in Rows |-> [j \in Rows |->
        (IF i = j THEN XMPlaneDot(P, L) ELSE 0) - (P[i] * L[j]) \div One]]

\* MathHelper::Max
Max(a, b) == IF a > b THEN a ELSE b

\* ----------------------------------------------------------------- scene
\* render items of mAllRitems: the three skull items the class names, and
\* one item that is built once and never moved
SkullItems == {"skull", "reflectedSkull", "shadowedSkull"}
StaticItems == {"floor"}
Items == StaticItems \cup SkullItems

\* RenderItem::ObjCBIndex as BuildRenderItems assigns it: one element each
ObjCBIndex ==
    [e \in Items |->
        CASE e = "floor" -> 0
          [] e = "skull" -> 1
          [] e = "reflectedSkull" -> 2
          [] e = "shadowedSkull" -> 3]

ObjCBSlots == {ObjCBIndex[e] : e \in Items}

\* World matrices BuildRenderItems may give the static item
StaticWorlds == {Identity4x4, XMMatrixTranslation(One, 0, 2 * One)}

\* RenderItem::TexTransform
TexTransform == Identity4x4

\* mMaterials
Materials == {"bricks", "icemirror"}

\* Lights[0].Direction of mMainPassCB: nothing assigns it, the Light default
MainLightDirection == <<0, 0 - One, 0>>

\* 1.75f * dt of one frame
KeyStep == One

\* keys GetAsyncKeyState can report as down
Keys == {"A", "D", "W", "S"}

\* the fields of every Material as BuildMaterials sets them
MaterialData ==
    [m \in Materials |->
        IF m = "bricks"
        THEN [DiffuseAlbedo |-> <<One, One, One, One>>,
              FresnelR0 |-> <<50, 50, 50>>, Roughness |-> 250,
              MatTransform |-> Identity4x4]
        ELSE [DiffuseAlbedo |-> <<One, One, One, 300>>,
              FresnelR0 |-> <<100, 100, 100>>, Roughness |-> 500,
              MatTransform |-> Identity4x4]]

\* content of an upload-buffer element nobody has written yet
UninitObject == [World |-> <<>>, TexTransform |-> <<>>]
UninitMaterial ==
    [DiffuseAlbedo |-> <<>>, FresnelR0 |-> <<>>, Roughness |-> 0 - 1,
     MatTransform |-> <<>>]

\* The camera matrices come out of sinf/cosf and a normalisation, which have
\* no exact value here: such a matrix is the sequence of operations that
\* produced it (f) and the inputs that went in (the eye position of the
\* orbit camera, the aspect ratio of the window).
SymIdentity == [f |-> <<"I">>, eye |-> <<>>, aspect |-> 0]
SymLookAtLH(eye) == [f |-> <<"LookAtLH">>, eye |-> eye, aspect |-> 0]
SymPerspectiveFovLH(aspect) ==
    [f |-> <<"PerspectiveFovLH">>, eye |-> <<>>, aspect |-> aspect]
SymMultiply(a, b) ==
    [f |-> a.f \o <<"*">> \o b.f,
     eye |-> IF a.eye # <<>> THEN a.eye ELSE b.eye,
     aspect |-> IF a.aspect # 0 THEN a.aspect ELSE b.aspect]
SymInverse(m) == [m EXCEPT !.f = <<"Inverse">> \o @]
SymTranspose(m) ==
    IF Len(m.f) > 0 /\ Head(m.f) = "Transpose"
    THEN [m EXCEPT !.f = Tail(@)]
    ELSE [m EXCEPT !.f = <<"Transpose">> \o @]

\* PassConstants, the fields this program assigns
DefaultPassConstants ==
    [View |-> SymIdentity, Proj |-> SymIdentity, ViewProj |-> SymIdentity,
     InvView |-> SymIdentity, InvProj |-> SymIdentity, InvViewProj |-> SymIdentity,
     Reflected |-> FALSE]
SymUninit == [f |-> <<"uninit">>, eye |-> <<>>, aspect |-> 0]
UninitPass ==
    [View |-> SymUninit, Proj |-> SymUninit, ViewProj |-> SymUninit,
     InvView |-> SymUninit, InvProj |-> SymUninit, InvViewProj |-> SymUninit,
     Reflected |-> FALSE]
PassCBSlots == 0 .. 1

\* orbit camera: mTheta, mPhi, mRadius (fixed point)
CameraTheta == 3896
CameraPhi == 1319
CameraRadius == 12 * One

Aspects == 1 .. MaxAspect

\* the swap-chain buffers, and the commands that write the render target
BackBuffers == 0 .. SwapChainBufferCount - 1
RenderTargetWrites == {"ClearRenderTargetView", "DrawRenderItems", "DrawIndexedInstanced"}

\* state of the back buffer when command k of a list runs on the queue,
\* the buffer being in state initial when the list starts: the after-state
\* of the last transition barrier recorded before k
StateAt(cmds, k, initial) ==
    LET before == {j \in 1 .. k - 1 : cmds[j].op = "ResourceBarrier"}
    IN  IF before = {} THEN initial
        ELSE cmds[CHOOSE j \in before : \A i \in before : i <= j].arg[2]

\* the transition barriers of a list: where each stands, the before-state
\* it declares and the state the buffer is in when it runs
BarriersRun(cmds, initial) ==
    {[at |-> k, declared |-> cmds[k].arg[1], actual |-> StateAt(cmds, k, initial)] :
        k \in {j \in 1 .. Len(cmds) : cmds[j].op = "ResourceBarrier"}}

\* the states the buffer is in when the list's clear and draws write to it
WritesRun(cmds, initial) ==
    {StateAt(cmds, k, initial) :
        k \in {j \in 1 .. Len(cmds) : cmds[j].op \in RenderTargetWrites}}

\* what running one list has done to the back buffer (history record)
RenderedBy(cmds, buffer, initial, presented) ==
    [buffer |-> buffer, barriers |-> BarriersRun(cmds, initial),
     writes |-> WritesRun(cmds, initial), presented |-> presented]
NothingRendered ==
    [buffer |-> 0 - 1, barriers |-> {}, writes |-> {}, presented |-> "none"]

\* POINT mLastMousePos has no initialiser: its value is indeterminate
\* until OnMouseDown or OnMouseMove assigns it
UninitPoint == <<>>

\* a mouse message: WM_?BUTTONDOWN or WM_MOUSEMOVE, the buttons held
\* (wParam) and the client position (lParam)
MouseEvent(kind, btnState, x, y) ==
    [kind |-> kind, btnState |-> btnState, x |-> x, y |-> y]
NoMouseEvent == MouseEvent("none", {}, 0, 0)

VARIABLES
    pc,                       \* position of the CPU thread
    mCurrFrameResourceIndex,  \* StencilApp::mCurrFrameResourceIndex
    mCurrFrameResource,       \* slot mCurrFrameResource points at, or NullFrameResource
    Fence,                    \* FrameResource::Fence of every slot
    mCurrentFence,            \* D3DApp::mCurrentFence
    mCurrBackBuffer,          \* D3DApp::mCurrBackBuffer
    gpuCompleted,             \* mFence->GetCompletedValue()
    gpuQueue,                 \* commands submitted to mCommandQueue, not yet executed
    mCommandList,             \* the command list: open or closed, and what it recorded
    failed,                   \* call sites whose HRESULT has failed so far
    exception,                \* call site whose DxException was thrown, or "none"
    frames,                   \* slot used by every frame begun so far (history)
    blocked,                  \* blocking fence waits of the current frame (history)
    lastSignal,               \* last mCommandQueue->Signal of Draw: its value and HRESULT
    mSkullTranslation,        \* StencilApp::mSkullTranslation
    World,                    \* RenderItem::World of every render item
    NumFrameDirety,           \* RenderItem::NumFrameDirety of every render item
    ObjectCB,                 \* FrameResource::ObjectCB of every slot
    NumFramesDirty,           \* Material::NumFramesDirty of every material
    MaterialCB,               \* FrameResource::MaterialCB of every slot
    mView, mProj,             \* camera matrices
    mMainPassCB,              \* StencilApp::mMainPassCB
    PassCB,                   \* FrameResource::PassCB of every slot
    mSwapChainBuffer,         \* resource state of every swap-chain buffer
    rendered,                 \* what the last executed list did to its back buffer (history)
    drawStamps,               \* fence values Draw has stamped on frames so far (history)
    mTheta, mPhi, mRadius,    \* orbit camera
    mLastMousePos,            \* mLastMousePos, or UninitPoint
    mouseEvent,               \* the last mouse message handled (history)
    mObjectCB                 \* BoxApp::mObjectCB, its single element

cpuVars == <<pc, mCurrFrameResourceIndex, mCurrFrameResource, Fence, mCurrentFence,
             mCurrBackBuffer, mCommandList, failed, exception, frames, blocked,
             lastSignal>>
sceneVars == <<mSkullTranslation, World, NumFrameDirety, ObjectCB, NumFramesDirty,
               MaterialCB, mView, mProj, mMainPassCB, PassCB>>
gpuVars == <<gpuCompleted, gpuQueue>>
bufferVars == <<mSwapChainBuffer, rendered>>
cameraVars == <<mTheta, mPhi, mRadius, mLastMousePos, mouseEvent>>

vars == <<cpuVars, sceneVars, gpuVars, bufferVars, drawStamps, cameraVars, mObjectCB>>

\* ------------------------------------------------------------------ Init
\* the state after StencilApp's constructor and member initialisers
Init ==
    /\ pc = "start"
    /\ mCurrFrameResourceIndex = 0
    /\ mCurrFrameResource = NullFrameResource
    /\ Fence = [i \in FrameResourceIds |-> 0]
    /\ mCurrentFence = 0
    /\ mCurrBackBuffer = 0
    /\ gpuCompleted = 0
    /\ gpuQueue = <<>>
    /\ mCommandList = [open |-> FALSE, alloc |-> NullFrameResource,
                       pso |-> "", cmds |-> <<>>]
    /\ failed = {}
    /\ exception = "none"
    /\ frames = <<>>
    /\ blocked = 0
    /\ lastSignal = [value |-> 0, hr |-> "S_OK"]
    /\ mSkullTranslation = <<0, One, (0 - 5) * One>>
    /\ \E w \in StaticWorlds :
          World = [e \in Items |-> IF e \in StaticItems THEN w ELSE Identity4x4]
    /\ NumFrameDirety = [e \in Items |-> gNumFrameResources]
    /\ ObjectCB = [i \in FrameResourceIds |-> [k \in ObjCBSlots |-> UninitObject]]
    /\ NumFramesDirty = [m \in Materials |-> gNumFrameResources]
    /\ MaterialCB = [i \in FrameResourceIds |-> [m \in Materials |-> UninitMaterial]]
    /\ mView = SymIdentity
    /\ mProj = SymIdentity
    /\ mMainPassCB = DefaultPassConstants
    /\ PassCB = [i \in FrameResourceIds |-> [k \in PassCBSlots |-> UninitPass]]
    /\ mSwapChainBuffer = [b \in BackBuffers |-> "PRESENT"]
    /\ rendered = NothingRendered
    /\ drawStamps = {}
    /\ mTheta = CameraTheta
    /\ mPhi = CameraPhi
    /\ mRadius = CameraRadius
    /\ mLastMousePos = UninitPoint
    /\ mouseEvent = NoMouseEvent
    /\ mObjectCB = SymUninit

\* --------------------------------------------------------------- helpers
\* ThrowIfFailed on a failed HRESULT: the DxException leaves every frame of
\* the call stack up to WinMain's try block, whose unwinding destroys theApp
Throw(site) ==
    /\ failed' = failed \cup {site}
    /\ exception' = site
    /\ pc' = "destroy"

\* D3DApp::FlushCommandQueue: advance the fence, signal it on the queue and
\* block until the GPU has reached it; the GPU has then run the whole queue
FlushCommandQueue ==
    /\ mCurrentFence' = mCurrentFence + 1
    /\ gpuCompleted' = mCurrentFence + 1
    /\ gpuQueue' = <<>>

ListEntry(fr, stamp) == [kind |-> "list", fr |-> fr, value |-> stamp]
SignalEntry(v) == [kind |-> "signal", fr |-> NullFrameResource, value |-> v]

\* ------------------------------------------------------------ Initialize
Initialize ==
    /\ pc = "start"
    /\ \/ \* D3DApp::Initialize() returned false: WinMain returns 0
          /\ pc' = "exited"
          /\ UNCHANGED <<mCurrFrameResourceIndex, mCurrFrameResource, Fence,
                         mCurrentFence, mCurrBackBuffer, mCommandList, failed,
                         exception, frames, blocked, lastSignal, sceneVars, gpuVars>>
       \/ /\ Throw("Initialize.Reset")
          /\ UNCHANGED <<mCurrFrameResourceIndex, mCurrFrameResource, Fence,
                         mCurrentFence, mCurrBackBuffer, mCommandList, frames,
                         blocked, lastSignal, sceneVars, gpuVars>>
       \/ /\ Throw("Initialize.Close")
          /\ mCommandList' = [mCommandList EXCEPT !.open = TRUE]
          /\ UNCHANGED <<mCurrFrameResourceIndex, mCurrFrameResource, Fence,
                         mCurrentFence, mCurrBackBuffer, frames,
                         blocked, lastSignal, sceneVars, gpuVars>>
       \/ \* the initialisation commands are executed and waited for
          /\ FlushCommandQueue
          /\ pc' = "idle"
          /\ UNCHANGED <<mCurrFrameResourceIndex, mCurrFrameResource, Fence,
                         mCurrBackBuffer, mCommandList, failed, exception, frames,
                         blocked, lastSignal, sceneVars>>
    /\ UNCHANGED <<bufferVars, drawStamps, cameraVars, mObjectCB>>

\* ---------------------------------------------------------------- Update
\* OnKeyboardInput: the skull translation after the four key tests and the clamp
SkullTranslationAfter(t, keys) ==
    LET x1 == IF "A" \in keys THEN t[1] - KeyStep ELSE t[1]
        x2 == IF "D" \in keys THEN x1 + KeyStep ELSE x1
        y1 == IF "W" \in keys THEN t[2] + KeyStep ELSE t[2]
        y2 == IF "S" \in keys THEN y1 - KeyStep ELSE y1
    IN  <<x2, Max(y2, 0), t[3]>>

\* skullRotate * skullScale * skullOffset
SkullWorld(t) ==
    XMMatrixMultiply(
        XMMatrixMultiply(XMMatrixRotationYHalfPi,
                         XMMatrixScaling((4 * One) \div 10, (4 * One) \div 10,
                                         (4 * One) \div 10)),
        XMMatrixTranslation(t[1], t[2], t[3]))

\* skullWorld * R, R the reflection in the mirror plane z = 0
ReflectedSkullWorld(t) ==
    XMMatrixMultiply(SkullWorld(t), XMMatrixReflect(<<0, 0, One, 0>>))

\* skullWorld * S * shadowOffsetY, S the shadow on the plane y = 0 cast by
\* the light from -Lights[0].Direction
ShadowedSkullWorld(t) ==
    LET toMainLight == <<0 - MainLightDirection[1], 0 - MainLightDirection[2],
                         0 - MainLightDirection[3], 0>>
    IN  XMMatrixMultiply(
            XMMatrixMultiply(SkullWorld(t),
                             XMMatrixShadow(<<0, One, 0, 0>>, toMainLight)),
            XMMatrixTranslation(0, One \div 1000, 0))

\* the translations the skull can have within the bounds, and the three
\* matrices of each (computed once)
SkullTranslations ==
    {<<x * One, y * One, (0 - 5) * One>> : x \in (0 - MaxX) .. MaxX, y \in 0 .. MaxY}

SkullWorlds ==
    [t \in SkullTranslations |->
        [skull |-> SkullWorld(t), reflectedSkull |-> ReflectedSkullWorld(t),
         shadowedSkull |-> ShadowedSkullWorld(t)]]

\* the World matrices and dirty counters OnKeyboardInput leaves behind
WorldAfterKeyboard(world, t) ==
    [e \in Items |-> IF e \in SkullItems THEN SkullWorlds[t][e] ELSE world[e]]

\* only the skull itself marked dirty
DirtyAfterKeyboardSkullOnly(dirty) ==
    [e \in Items |-> IF e = "skull" THEN gNumFrameResources ELSE dirty[e]]

\* OnKeyboardInput marks the skull, its reflection and its shadow dirty
DirtyAfterKeyboard(dirty) ==
    [e \in Items |-> IF e \in SkullItems THEN gNumFrameResources ELSE dirty[e]]

\* a ring that is one slot short
NextFrameResourceIndexShortRing(i) == (i + 1) % (gNumFrameResources - 1)

\* mCurrFrameResourceIndex = (mCurrFrameResourceIndex + 1) % gNumFrameResources
NextFrameResourceIndex(i) == (i + 1) % gNumFrameResources

\* a fence test that never waits
MustWaitNever(fence, completed) == FALSE

\* a fence test that lets the CPU through one fence value early
MustWaitOffByOne(fence, completed) == fence > 0 /\ completed + 1 < fence

\* a fence test that waits whenever the two values differ
MustWaitNotEqual(fence, completed) == completed # fence

\* the test that guards the fence wait
MustWait(fence, completed) == fence > 0 /\ completed < fence

\* Update up to and including the fence test: OnKeyboardInput, UpdateCamera,
\* the advance of the ring; then either the wait is entered or skipped
UpdateBegin(keys) ==
    /\ pc = "idle"
    /\ mCurrentFence + 2 <= MaxFence
    /\ LET t == SkullTranslationAfter(mSkullTranslation, keys)
           i == NextFrameResourceIndex(mCurrFrameResourceIndex)
       IN  /\ t \in SkullTranslations
           /\ mSkullTranslation' = t
           /\ World' = WorldAfterKeyboard(World, t)
           /\ NumFrameDirety' = DirtyAfterKeyboard(NumFrameDirety)
           /\ mView' = SymLookAtLH(<<mRadius, mPhi, mTheta>>)
           /\ mCurrFrameResourceIndex' = i
           /\ mCurrFrameResource' = i
           /\ frames' = Append(frames, i)
           /\ IF MustWait(Fence[i], gpuCompleted)
              THEN \/ /\ Throw("Update.SetEventOnCompletion")
                      /\ blocked' = 0
                   \/ /\ pc' = "upd_wait"
                      /\ blocked' = 1
                      /\ UNCHANGED <<failed, exception>>
              ELSE /\ pc' = "upd_write"
                   /\ blocked' = 0
                   /\ UNCHANGED <<failed, exception>>
    /\ UNCHANGED <<Fence, mCurrentFence, mCurrBackBuffer, mCommandList,
                   lastSignal, ObjectCB, NumFramesDirty, MaterialCB, mProj,
                   mMainPassCB, PassCB, gpuVars>>
    /\ UNCHANGED <<bufferVars, drawStamps, cameraVars, mObjectCB>>

\* WaitForSingleObject returns once the fence has reached the value
UpdateWake ==
    /\ pc = "upd_wait"
    /\ gpuCompleted >= Fence[mCurrFrameResource]
    /\ pc' = "upd_write"
    /\ UNCHANGED <<mCurrFrameResourceIndex, mCurrFrameResource, Fence,
                   mCurrentFence, mCurrBackBuffer, mCommandList, failed,
                   exception, frames, blocked, lastSignal, sceneVars, gpuVars>>
    /\ UNCHANGED <<bufferVars, drawStamps, cameraVars, mObjectCB>>

\* ObjectConstants of a render item: both matrices transposed
ObjectConstantsOf(world) ==
    [World |-> XMMatrixTranspose(world), TexTransform |-> XMMatrixTranspose(TexTransform)]

\* UpdateObjectCBs: what the loop leaves in the current object buffer
ObjectCBAfterUpdate(cb, dirty, world) ==
    [k \in ObjCBSlots |->
        IF \E e \in Items : ObjCBIndex[e] = k /\ dirty[e] > 0
        THEN ObjectConstantsOf(world[CHOOSE e \in Items : ObjCBIndex[e] = k])
        ELSE cb[k]]

\* counters decremented without the test for > 0
DirtyAfterUpdateUnguarded(dirty) == [e \in Items |-> dirty[e] - 1]

\* UpdateObjectCBs: the counters after the loop
DirtyAfterUpdate(dirty) ==
    [e \in Items |-> IF dirty[e] > 0 THEN dirty[e] - 1 ELSE dirty[e]]

\* MaterialConstants as the material loop assembles them
MaterialConstantsOf(m) ==
    [DiffuseAlbedo |-> MaterialData[m].DiffuseAlbedo,
     FresnelR0 |-> MaterialData[m].FresnelR0,
     Roughness |-> MaterialData[m].Roughness,
     MatTransform |-> XMMatrixTranspose(MaterialData[m].MatTransform)]

\* the material loop: the constants are assembled in a local and the
\* counter is decremented; nothing is copied into the material buffer
MaterialCBAfterUpdate(cb, dirty) == cb

MaterialDirtyAfterUpdate(dirty) ==
    [m \in Materials |-> IF dirty[m] > 0 THEN dirty[m] - 1 ELSE dirty[m]]

\* UpdateMainPassCB: the six matrices stored into mMainPassCB
MainPassAfterUpdate(pass, view, proj) ==
    LET viewProj == SymMultiply(view, proj)
    IN  [pass EXCEPT
            !.View = SymTranspose(view),
            !.Proj = SymTranspose(proj),
            !.ViewProj = SymTranspose(viewProj),
            !.InvView = SymTranspose(SymInverse(view)),
            !.InvProj = SymTranspose(SymInverse(proj)),
            !.InvViewProj = SymTranspose(SymInverse(viewProj))]

\* UpdateMainPassCB: the pass buffer it leaves (it copies nothing)
PassCBAfterMainPass(cb, pass) == cb

\* UpdateReflectedPassCB: the main pass constants with the lights
\* reflected, copied into element 1
PassCBAfterReflectedPass(cb, pass) ==
    [cb EXCEPT ![1] = [pass EXCEPT !.Reflected = TRUE]]

\* Update after the fence test: AnimateMaterials (empty), UpdateObjectCBs,
\* the material loop, UpdateMainPassCB, UpdateReflectedPassCB
UpdateWrite ==
    /\ pc = "upd_write"
    /\ LET fr == mCurrFrameResource
           pass == MainPassAfterUpdate(mMainPassCB, mView, mProj)
       IN  /\ ObjectCB' = [ObjectCB EXCEPT
                  ![fr] = ObjectCBAfterUpdate(@, NumFrameDirety, World)]
           /\ NumFrameDirety' = DirtyAfterUpdate(NumFrameDirety)
           /\ MaterialCB' = [MaterialCB EXCEPT
                  ![fr] = MaterialCBAfterUpdate(@, NumFramesDirty)]
           /\ NumFramesDirty' = MaterialDirtyAfterUpdate(NumFramesDirty)
           /\ mMainPassCB' = pass
           /\ PassCB' = [PassCB EXCEPT
                  ![fr] = PassCBAfterReflectedPass(PassCBAfterMainPass(@, pass), pass)]
    /\ pc' = "draw_reset"
    /\ UNCHANGED <<mCurrFrameResourceIndex, mCurrFrameResource, Fence,
                   mCurrentFence, mCurrBackBuffer, mCommandList, failed,
                   exception, frames, blocked, lastSignal, mSkullTranslation, World,
                   mView, mProj, gpuVars>>
    /\ UNCHANGED <<bufferVars, drawStamps, cameraVars, mObjectCB>>

\* ------------------------------------------------------------------ Draw
\* a recorded command; arg is a sequence of strings or of numbers
Cmd(op, arg) == [op |-> op, arg |-> arg]

\* DrawRenderItems(cmdList, mRitemLayer[layer]): the draws of one layer
DrawRenderItems(layer) == Cmd("DrawRenderItems", <<layer>>)

\* SetGraphicsRootConstantBufferView(2, passCB->GetGPUVirtualAddress()
\* + element * passCBByteSize) of frame resource fr
SetPassCBV(fr, element) == Cmd("SetGraphicsRootConstantBufferView", <<2, fr, element>>)

\* the recording with the reflection drawn before the mirror is marked
DrawCommandsReflectedFirst(fr) ==
    << Cmd("RSSetViewports", <<>>),
       Cmd("RSSetScissorRects", <<>>),
       Cmd("ResourceBarrier", <<"PRESENT", "RENDER_TARGET">>),
       Cmd("ClearRenderTargetView", <<>>),
       Cmd("ClearDepthStencilView", <<>>),
       Cmd("OMSetRenderTargets", <<>>),
       Cmd("SetDescriptorHeaps", <<>>),
       Cmd("SetGraphicsRootSignature", <<>>),
       SetPassCBV(fr, 0),
       DrawRenderItems("Opaque"),
       Cmd("OMSetStencilRef", <<1>>),
       SetPassCBV(fr, 1),
       Cmd("SetPipelineState", <<"drawStencilReflections">>),
       DrawRenderItems("Reflected"),
       Cmd("SetPipelineState", <<"markStencilMirrors">>),
       DrawRenderItems("Mirrors"),
       SetPassCBV(fr, 0),
       Cmd("OMSetStencilRef", <<0>>),
       Cmd("SetPipelineState", <<"transparent">>),
       DrawRenderItems("Transparent"),
       Cmd("SetPipelineState", <<"shadow">>),
       DrawRenderItems("Shadow"),
       Cmd("ResourceBarrier", <<"RENDER_TARGET", "PRESENT">>) >>

\* the recording without the restore of the stencil reference
DrawCommandsStencilRefKept(fr) ==
    << Cmd("RSSetViewports", <<>>),
       Cmd("RSSetScissorRects", <<>>),
       Cmd("ResourceBarrier", <<"PRESENT", "RENDER_TARGET">>),
       Cmd("ClearRenderTargetView", <<>>),
       Cmd("ClearDepthStencilView", <<>>),
       Cmd("OMSetRenderTargets", <<>>),
       Cmd("SetDescriptorHeaps", <<>>),
       Cmd("SetGraphicsRootSignature", <<>>),
       SetPassCBV(fr, 0),
       DrawRenderItems("Opaque"),
       Cmd("OMSetStencilRef", <<1>>),
       Cmd("SetPipelineState", <<"markStencilMirrors">>),
       DrawRenderItems("Mirrors"),
       SetPassCBV(fr, 1),
       Cmd("SetPipelineState", <<"drawStencilReflections">>),
       DrawRenderItems("Reflected"),
       SetPassCBV(fr, 0),
       Cmd("SetPipelineState", <<"transparent">>),
       DrawRenderItems("Transparent"),
       Cmd("SetPipelineState", <<"shadow">>),
       DrawRenderItems("Shadow"),
       Cmd("ResourceBarrier", <<"RENDER_TARGET", "PRESENT">>) >>

\* the recording without the transition back to PRESENT
DrawCommandsNoPresentBarrier(fr) ==
    << Cmd("RSSetViewports", <<>>),
       Cmd("RSSetScissorRects", <<>>),
       Cmd("ResourceBarrier", <<"PRESENT", "RENDER_TARGET">>),
       Cmd("ClearRenderTargetView", <<>>),
       Cmd("ClearDepthStencilView", <<>>),
       Cmd("OMSetRenderTargets", <<>>),
       Cmd("SetDescriptorHeaps", <<>>),
       Cmd("SetGraphicsRootSignature", <<>>),
       SetPassCBV(fr, 0),
       DrawRenderItems("Opaque"),
       Cmd("OMSetStencilRef", <<1>>),
       Cmd("SetPipelineState", <<"markStencilMirrors">>),
       DrawRenderItems("Mirrors"),
       SetPassCBV(fr, 1),
       Cmd("SetPipelineState", <<"drawStencilReflections">>),
       DrawRenderItems("Reflected"),
       SetPassCBV(fr, 0),
       Cmd("OMSetStencilRef", <<0>>),
       Cmd("SetPipelineState", <<"transparent">>),
       DrawRenderItems("Transparent"),
       Cmd("SetPipelineState", <<"shadow">>),
       DrawRenderItems("Shadow") >>

\* what Draw records between the Reset and the Close of the command list
DrawCommands(fr) ==
    << Cmd("RSSetViewports", <<>>),
       Cmd("RSSetScissorRects", <<>>),
       Cmd("ResourceBarrier", <<"PRESENT", "RENDER_TARGET">>),
       Cmd("ClearRenderTargetView", <<>>),
       Cmd("ClearDepthStencilView", <<>>),
       Cmd("OMSetRenderTargets", <<>>),
       Cmd("SetDescriptorHeaps", <<>>),
       Cmd("SetGraphicsRootSignature", <<>>),
       SetPassCBV(fr, 0),
       DrawRenderItems("Opaque"),
       Cmd("OMSetStencilRef", <<1>>),
       Cmd("SetPipelineState", <<"markStencilMirrors">>),
       DrawRenderItems("Mirrors"),
       SetPassCBV(fr, 1),
       Cmd("SetPipelineState", <<"drawStencilReflections">>),
       DrawRenderItems("Reflected"),
       SetPassCBV(fr, 0),
       Cmd("OMSetStencilRef", <<0>>),
       Cmd("SetPipelineState", <<"transparent">>),
       DrawRenderItems("Transparent"),
       Cmd("SetPipelineState", <<"shadow">>),
       DrawRenderItems("Shadow"),
       Cmd("ResourceBarrier", <<"RENDER_TARGET", "PRESENT">>) >>

\* Draw, first part: the current frame resource's allocator is reset and
\* the command list is reopened on it with the opaque pipeline state
DrawReset ==
    /\ pc = "draw_reset"
    /\ \/ /\ Throw("Draw.AllocatorReset")
          /\ UNCHANGED mCommandList
       \/ /\ Throw("Draw.CommandListReset")
          /\ UNCHANGED mCommandList
       \/ /\ mCommandList' = [open |-> TRUE, alloc |-> mCurrFrameResource,
                               pso |-> "opaque", cmds |-> <<>>]
          /\ pc' = "draw_record"
          /\ UNCHANGED <<failed, exception>>
    /\ UNCHANGED <<mCurrFrameResourceIndex, mCurrFrameResource, Fence,
                   mCurrentFence, mCurrBackBuffer, frames, blocked, lastSignal,
                   sceneVars, gpuVars>>
    /\ UNCHANGED <<bufferVars, drawStamps, cameraVars, mObjectCB>>

\* Draw, second part: the commands are recorded and the list is closed
DrawRecord ==
    /\ pc = "draw_record"
    /\ \/ /\ Throw("Draw.Close")
          /\ mCommandList' = [mCommandList EXCEPT
                 !.cmds = DrawCommands(mCurrFrameResource)]
       \/ /\ mCommandList' = [mCommandList EXCEPT
                 !.cmds = DrawCommands(mCurrFrameResource), !.open = FALSE]
          /\ pc' = "draw_submit"
          /\ UNCHANGED <<failed, exception>>
    /\ UNCHANGED <<mCurrFrameResourceIndex, mCurrFrameResource, Fence,
                   mCurrentFence, mCurrBackBuffer, frames, blocked, lastSignal,
                   sceneVars, gpuVars>>
    /\ UNCHANGED <<bufferVars, drawStamps, cameraVars, mObjectCB>>

\* the value a post-increment would store
FenceStampPostIncrement(current) == current

\* the value of ++mCurrentFence that Draw stores in the frame resource
FenceStamp(current) == current + 1

\* Draw, last part: ExecuteCommandLists, Present, then the fence is
\* advanced, stored in the frame resource and signalled on the queue.
\* Present's HRESULT goes through ThrowIfFailed; Signal's is discarded.
DrawSubmit ==
    /\ pc = "draw_submit"
    /\ LET fr == mCurrFrameResource
           executed == Append(gpuQueue, ListEntry(fr, mCurrentFence + 1))
           cmds == mCommandList.cmds
           before == mSwapChainBuffer[mCurrBackBuffer]
           after == StateAt(cmds, Len(cmds) + 1, before)
       IN  \/ /\ Throw("Draw.Present")
              /\ gpuQueue' = executed
              /\ mSwapChainBuffer' = [mSwapChainBuffer EXCEPT ![mCurrBackBuffer] = after]
              /\ rendered' = RenderedBy(cmds, mCurrBackBuffer, before, "none")
              /\ UNCHANGED <<Fence, mCurrentFence, mCurrBackBuffer, lastSignal,
                             drawStamps>>
           \/ /\ mSwapChainBuffer' = [mSwapChainBuffer EXCEPT ![mCurrBackBuffer] = after]
              /\ rendered' = RenderedBy(cmds, mCurrBackBuffer, before, after)
              /\ drawStamps' = drawStamps \cup {FenceStamp(mCurrentFence)}
              /\ mCurrBackBuffer' = (mCurrBackBuffer + 1) % SwapChainBufferCount
              /\ mCurrentFence' = mCurrentFence + 1
              /\ Fence' = [Fence EXCEPT ![fr] = FenceStamp(mCurrentFence)]
              /\ pc' = "idle"
              /\ exception' = exception
              /\ \/ /\ gpuQueue' = Append(executed, SignalEntry(mCurrentFence + 1))
                    /\ lastSignal' = [value |-> mCurrentFence + 1, hr |-> "S_OK"]
                    /\ failed' = failed
                 \/ /\ gpuQueue' = executed
                    /\ lastSignal' = [value |-> mCurrentFence + 1, hr |-> "E_FAIL"]
                    /\ failed' = failed \cup {"Draw.Signal"}
    /\ UNCHANGED <<mCurrFrameResourceIndex, mCurrFrameResource, mCommandList,
                   frames, blocked, gpuCompleted, sceneVars>>
    /\ UNCHANGED <<cameraVars, mObjectCB>>

\* --------------------------------------------------------------- OnResize
\* WM_SIZE between two frames: D3DApp::OnResize flushes the queue before
\* and after it rebuilds the buffers, then the projection is recomputed
OnResize(aspect) ==
    /\ pc = "idle"
    /\ mCurrentFence + 3 <= MaxFence
    /\ mCurrentFence' = mCurrentFence + 2
    /\ gpuCompleted' = mCurrentFence + 2
    /\ gpuQueue' = <<>>
    /\ mCurrBackBuffer' = 0
    /\ mSwapChainBuffer' = [b \in BackBuffers |-> "PRESENT"]
    /\ mProj' = SymPerspectiveFovLH(aspect)
    /\ UNCHANGED <<pc, mCurrFrameResourceIndex, mCurrFrameResource, Fence,
                   mCommandList, failed, exception, frames, blocked, lastSignal,
                   mSkullTranslation, World, NumFrameDirety, ObjectCB,
                   NumFramesDirty, MaterialCB, mView, mMainPassCB, PassCB>>
    /\ UNCHANGED <<rendered, drawStamps, cameraVars, mObjectCB>>

\* ------------------------------------------------------------- the GPU
\* the command queue runs its entries in submission order; reaching a
\* Signal entry sets the fence's completed value
GPUExecute ==
    /\ gpuQueue # <<>>
    /\ gpuQueue' = Tail(gpuQueue)
    /\ gpuCompleted' = IF Head(gpuQueue).kind = "signal"
                       THEN Head(gpuQueue).value ELSE gpuCompleted
    /\ UNCHANGED <<cpuVars, sceneVars>>
    /\ UNCHANGED <<bufferVars, drawStamps, cameraVars, mObjectCB>>

\* ----------------------------------------------------------- destruction
\* ~StencilApp (md3dDevice is set once D3DApp::Initialize has succeeded),
\* then WinMain returns: 0 from the catch block, or Run's result
Destructor ==
    /\ pc = "destroy"
    /\ FlushCommandQueue
    /\ pc' = "exited"
    /\ UNCHANGED <<mCurrFrameResourceIndex, mCurrFrameResource, Fence,
                   mCurrBackBuffer, mCommandList, failed, exception, frames,
                   blocked, lastSignal, sceneVars>>
    /\ UNCHANGED <<bufferVars, drawStamps, cameraVars, mObjectCB>>

\* Run() returns when the window is closed
Quit ==
    /\ pc = "idle"
    /\ pc' = "destroy"
    /\ UNCHANGED <<mCurrFrameResourceIndex, mCurrFrameResource, Fence,
                   mCurrentFence, mCurrBackBuffer, mCommandList, failed,
                   exception, frames, blocked, lastSignal, sceneVars, gpuVars>>
    /\ UNCHANGED <<bufferVars, drawStamps, cameraVars, mObjectCB>>

\* ------------------------------------------------------- specification
Next ==
    \/ Initialize
    \/ \E keys \in SUBSET Keys : UpdateBegin(keys)
    \/ UpdateWake
    \/ UpdateWrite
    \/ DrawReset
    \/ DrawRecord
    \/ DrawSubmit
    \/ \E a \in Aspects : OnResize(a)
    \/ GPUExecute
    \/ Quit
    \/ Destructor

Spec == Init /\ [][Next]_vars

\* every step the CPU thread can take (all of Next but the GPU's)
CpuStep ==
    \/ Initialize
    \/ \E keys \in SUBSET Keys : UpdateBegin(keys)
    \/ UpdateWake
    \/ UpdateWrite
    \/ DrawReset
    \/ DrawRecord
    \/ DrawSubmit
    \/ \E a \in Aspects : OnResize(a)
    \/ Quit
    \/ Destructor

\* positions at which the CPU writes into, or records with, the current
\* frame resource
UsingFrameResource == pc \in {"upd_write", "draw_reset", "draw_record", "draw_submit"}

\* the command lists in the queue that were recorded with frame resource fr
PendingLists(fr) ==
    {k \in 1 .. Len(gpuQueue) : gpuQueue[k].kind = "list" /\ gpuQueue[k].fr = fr}

\* ================================================================ BoxApp
\* BoxApp's orbit camera as its member initialisers leave it (fixed point)
BoxCameraTheta == 4712
BoxCameraPhi == 785
BoxCameraRadius == 5 * One

\* the state after BoxApp's constructor and member initialisers; what
\* belongs to StencilApp alone stays as constructed
BoxInit ==
    /\ pc = "box_start"
    /\ mCurrFrameResourceIndex = 0
    /\ mCurrFrameResource = NullFrameResource
    /\ Fence = [i \in FrameResourceIds |-> 0]
    /\ mCurrentFence = 0
    /\ mCurrBackBuffer = 0
    /\ gpuCompleted = 0
    /\ gpuQueue = <<>>
    /\ mCommandList = [open |-> FALSE, alloc |-> NullFrameResource,
                       pso |-> "", cmds |-> <<>>]
    /\ failed = {}
    /\ exception = "none"
    /\ frames = <<>>
    /\ blocked = 0
    /\ lastSignal = [value |-> 0, hr |-> "S_OK"]
    /\ mSkullTranslation = <<0, One, (0 - 5) * One>>
    /\ World = [e \in Items |-> Identity4x4]
    /\ NumFrameDirety = [e \in Items |-> gNumFrameResources]
    /\ ObjectCB = [i \in FrameResourceIds |-> [k \in ObjCBSlots |-> UninitObject]]
    /\ NumFramesDirty = [m \in Materials |-> gNumFrameResources]
    /\ MaterialCB = [i \in FrameResourceIds |-> [m \in Materials |-> UninitMaterial]]
    /\ mView = SymIdentity
    /\ mProj = SymIdentity
    /\ mMainPassCB = DefaultPassConstants
    /\ PassCB = [i \in FrameResourceIds |-> [k \in PassCBSlots |-> UninitPass]]
    /\ mSwapChainBuffer = [b \in BackBuffers |-> "PRESENT"]
    /\ rendered = NothingRendered
    /\ drawStamps = {}
    /\ mTheta = BoxCameraTheta
    /\ mPhi = BoxCameraPhi
    /\ mRadius = BoxCameraRadius
    /\ mLastMousePos = UninitPoint
    /\ mouseEvent = NoMouseEvent
    /\ mObjectCB = SymUninit

\* what BoxApp never touches
stencilVars == <<mCurrFrameResourceIndex, mCurrFrameResource, Fence, frames, blocked,
                 lastSignal, mSkullTranslation, World, NumFrameDirety, ObjectCB,
                 NumFramesDirty, MaterialCB, mMainPassCB, PassCB, drawStamps>>

\* D3DApp::FlushCommandQueue up to its wait: the fence is advanced and
\* signalled on the queue behind whatever has been submitted
FlushSignal(queue) ==
    /\ mCurrentFence' = mCurrentFence + 1
    /\ gpuQueue' = Append(queue, SignalEntry(mCurrentFence + 1))

\* BoxApp::Initialize: the initialisation list is recorded, closed and
\* executed, then FlushCommandQueue is entered
BoxInitialize ==
    /\ pc = "box_start"
    /\ \/ \* D3DApp::Initialize() returned false: WinMain returns 0
          /\ pc' = "exited"
          /\ UNCHANGED <<mCurrentFence, mCommandList, failed, exception, gpuQueue>>
       \/ /\ Throw("BoxInitialize.Reset")
          /\ UNCHANGED <<mCurrentFence, mCommandList, gpuQueue>>
       \/ /\ Throw("BoxInitialize.Close")
          /\ mCommandList' = [mCommandList EXCEPT !.open = TRUE]
          /\ UNCHANGED <<mCurrentFence, gpuQueue>>
       \/ /\ FlushSignal(Append(gpuQueue, ListEntry(NullFrameResource, 0)))
          /\ pc' = "box_init_flush"
          /\ UNCHANGED <<mCommandList, failed, exception>>
    /\ UNCHANGED <<stencilVars, mCurrBackBuffer, gpuCompleted, mView, mProj,
                   bufferVars, cameraVars, mObjectCB>>

\* the wait of FlushCommandQueue, in Initialize and in Draw, returns once
\* the fence has reached mCurrentFence
BoxFlushWait ==
    /\ pc \in {"box_init_flush", "box_flush"}
    /\ gpuCompleted >= mCurrentFence
    /\ pc' = "box_idle"
    /\ UNCHANGED <<stencilVars, mCurrentFence, mCurrBackBuffer, mCommandList, failed,
                   exception, gpuVars, mView, mProj, bufferVars, cameraVars,
                   mObjectCB>>

\* BoxApp::Update: the view matrix is rebuilt from the orbit camera and
\* the transposed world*view*proj is copied into element 0 of mObjectCB
\* (mWorld is the identity; the time field is left out)
BoxUpdate ==
    /\ pc = "box_idle"
    /\ mCurrentFence + 2 <= MaxFence
    /\ LET view == SymLookAtLH(<<mRadius, mPhi, mTheta>>)
       IN  /\ mView' = view
           /\ mObjectCB' = SymTranspose(SymMultiply(SymMultiply(SymIdentity, view),
                                                    mProj))
    /\ pc' = "box_draw"
    /\ UNCHANGED <<stencilVars, mCurrentFence, mCurrBackBuffer, mCommandList, failed,
                   exception, gpuVars, mProj, bufferVars, cameraVars>>

\* BoxApp::Draw, first part: mDirectCmdListAlloc is reset and the command
\* list is reopened on it with mPSO
BoxDrawReset ==
    /\ pc = "box_draw"
    /\ \/ /\ Throw("BoxDraw.AllocatorReset")
          /\ UNCHANGED mCommandList
       \/ /\ Throw("BoxDraw.CommandListReset")
          /\ UNCHANGED mCommandList
       \/ /\ mCommandList' = [open |-> TRUE, alloc |-> NullFrameResource,
                               pso |-> "mPSO", cmds |-> <<>>]
          /\ pc' = "box_record"
          /\ UNCHANGED <<failed, exception>>
    /\ UNCHANGED <<stencilVars, mCurrentFence, mCurrBackBuffer, gpuVars, mView, mProj,
                   bufferVars, cameraVars, mObjectCB>>

\* what BoxApp::Draw records between the Reset and the Close
BoxDrawCommands ==
    << Cmd("RSSetViewports", <<>>),
       Cmd("RSSetScissorRects", <<>>),
       Cmd("ResourceBarrier", <<"PRESENT", "RENDER_TARGET">>),
       Cmd("ClearRenderTargetView", <<>>),
       Cmd("ClearDepthStencilView", <<>>),
       Cmd("OMSetRenderTargets", <<>>),
       Cmd("SetDescriptorHeaps", <<>>),
       Cmd("SetGraphicsRootSignature", <<>>),
       Cmd("IASetVertexBuffers", <<>>),
       Cmd("IASetIndexBuffer", <<>>),
       Cmd("IASetPrimitiveTopology", <<>>),
       Cmd("SetGraphicsRootDescriptorTable", <<>>),
       Cmd("DrawIndexedInstanced", <<"box">>),
       Cmd("ResourceBarrier", <<"RENDER_TARGET", "PRESENT">>) >>

\* BoxApp::Draw, second part: the commands are recorded, the list is closed
BoxDrawRecord ==
    /\ pc = "box_record"
    /\ \/ /\ Throw("BoxDraw.Close")
          /\ mCommandList' = [mCommandList EXCEPT !.cmds = BoxDrawCommands]
       \/ /\ mCommandList' = [mCommandList EXCEPT
                 !.cmds = BoxDrawCommands, !.open = FALSE]
          /\ pc' = "box_submit"
          /\ UNCHANGED <<failed, exception>>
    /\ UNCHANGED <<stencilVars, mCurrentFence, mCurrBackBuffer, gpuVars, mView, mProj,
                   bufferVars, cameraVars, mObjectCB>>

\* a Draw that returns after Present, without FlushCommandQueue
BoxDrawSubmitNoFlush ==
    /\ pc = "box_submit"
    /\ LET executed == Append(gpuQueue, ListEntry(NullFrameResource, 0))
           cmds == mCommandList.cmds
           before == mSwapChainBuffer[mCurrBackBuffer]
           after == StateAt(cmds, Len(cmds) + 1, before)
       IN  /\ mSwapChainBuffer' = [mSwapChainBuffer EXCEPT ![mCurrBackBuffer] = after]
           /\ \/ /\ Throw("BoxDraw.Present")
                 /\ gpuQueue' = executed
                 /\ rendered' = RenderedBy(cmds, mCurrBackBuffer, before, "none")
                 /\ UNCHANGED <<mCurrentFence, mCurrBackBuffer>>
              \/ /\ rendered' = RenderedBy(cmds, mCurrBackBuffer, before, after)
                 /\ mCurrBackBuffer' = (mCurrBackBuffer + 1) % SwapChainBufferCount
                 /\ gpuQueue' = executed
                 /\ mCurrentFence' = mCurrentFence
                 /\ pc' = "box_idle"
                 /\ UNCHANGED <<failed, exception>>
    /\ UNCHANGED <<stencilVars, mCommandList, gpuCompleted, mView, mProj, cameraVars,
                   mObjectCB>>

\* BoxApp::Draw, last part: ExecuteCommandLists, Present, the advance of
\* mCurrBackBuffer, then FlushCommandQueue is entered
BoxDrawSubmit ==
    /\ pc = "box_submit"
    /\ LET executed == Append(gpuQueue, ListEntry(NullFrameResource, 0))
           cmds == mCommandList.cmds
           before == mSwapChainBuffer[mCurrBackBuffer]
           after == StateAt(cmds, Len(cmds) + 1, before)
       IN  /\ mSwapChainBuffer' = [mSwapChainBuffer EXCEPT ![mCurrBackBuffer] = after]
           /\ \/ /\ Throw("BoxDraw.Present")
                 /\ gpuQueue' = executed
                 /\ rendered' = RenderedBy(cmds, mCurrBackBuffer, before, "none")
                 /\ UNCHANGED <<mCurrentFence, mCurrBackBuffer>>
              \/ /\ rendered' = RenderedBy(cmds, mCurrBackBuffer, before, after)
                 /\ mCurrBackBuffer' = (mCurrBackBuffer + 1) % SwapChainBufferCount
                 /\ FlushSignal(executed)
                 /\ pc' = "box_flush"
                 /\ UNCHANGED <<failed, exception>>
    /\ UNCHANGED <<stencilVars, mCommandList, gpuCompleted, mView, mProj, cameraVars,
                   mObjectCB>>

\* WM_SIZE between two frames: D3DApp::OnResize flushes the queue before
\* and after it rebuilds the buffers, then BoxApp recomputes the projection
BoxOnResize(aspect) ==
    /\ pc = "box_idle"
    /\ mCurrentFence + 3 <= MaxFence
    /\ mCurrentFence' = mCurrentFence + 2
    /\ gpuCompleted' = mCurrentFence + 2
    /\ gpuQueue' = <<>>
    /\ mCurrBackBuffer' = 0
    /\ mSwapChainBuffer' = [b \in BackBuffers |-> "PRESENT"]
    /\ mProj' = SymPerspectiveFovLH(aspect)
    /\ UNCHANGED <<stencilVars, pc, mCommandList, failed, exception, mView, rendered,
                   cameraVars, mObjectCB>>

\* Run() returns when the window is closed
BoxQuit ==
    /\ pc = "box_idle"
    /\ pc' = "destroy"
    /\ UNCHANGED <<stencilVars, mCurrentFence, mCurrBackBuffer, mCommandList, failed,
                   exception, gpuVars, mView, mProj, bufferVars, cameraVars,
                   mObjectCB>>

BoxNext ==
    \/ BoxInitialize
    \/ BoxFlushWait
    \/ BoxUpdate
    \/ BoxDrawReset
    \/ BoxDrawRecord
    \/ BoxDrawSubmit
    \/ \E a \in Aspects : BoxOnResize(a)
    \/ GPUExecute
    \/ BoxQuit
    \/ Destructor

\* BoxApp alone
SpecBox == BoxInit /\ [][BoxNext]_vars

\* either program
AppsNext ==
    \/ Next
    \/ BoxNext
SpecApps == (Init \/ BoxInit) /\ [][AppsNext]_vars

\* ================================================================ mouse
\* MathHelper::Pi and MathHelper::Clamp (fixed point)
Pi == 3142
Clamp(x, low, high) == IF x < low THEN low ELSE IF x > high THEN high ELSE x

\* a / b rounded towards zero, as a float product cut to the fixed point
Truncated(a, b) == IF a >= 0 THEN a \div b ELSE 0 - ((0 - a) \div b)

\* XMConvertToRadians(0.25f * pixels)
QuarterDegreesToRadians(pixels) == Truncated(pixels * 250 * Pi, 180 * One)

\* client positions the mouse reports: a grid of MouseStep pixels
MouseStep == 400
MouseCoords == {k * MouseStep : k \in 0 .. MaxMouse}
Buttons == {"MK_LBUTTON", "MK_RBUTTON"}

\* the values a read of mLastMousePos can give
LastMousePositions ==
    IF mLastMousePos = UninitPoint THEN MouseCoords \X MouseCoords
    ELSE {mLastMousePos}

\* mTheta stays within MaxTurns grid steps of where it started
ThetaInWindow(theta, start) ==
    LET window == MaxTurns * QuarterDegreesToRadians(MouseStep)
    IN  start - window <= theta /\ theta <= start + window

\* OnMouseDown of both programs: the position is remembered (SetCapture
\* changes nothing here; OnMouseUp only releases the capture)
OnMouseDown(btnState, x, y) ==
    /\ pc \in {"idle", "box_idle"}
    /\ mLastMousePos' = <<x, y>>
    /\ mouseEvent' = MouseEvent("down", btnState, x, y)
    /\ UNCHANGED <<cpuVars, sceneVars, gpuVars, bufferVars, drawStamps, mTheta, mPhi,
                   mRadius, mObjectCB>>

\* mPhi after a left-button move, without the restriction
PhiAfterMoveUnclamped(phi, dy) == phi + dy

\* mPhi after a left-button move of either program
PhiAfterMove(phi, dy) == Clamp(phi + dy, 100, Pi - 100)

\* mRadius after a right-button move of StencilApp (0.2 unit per pixel)
RadiusAfterMove(radius, px, py) ==
    Clamp(radius + 200 * px - 200 * py, 5 * One, 150 * One)

\* mRadius after a right-button move of BoxApp (0.01 unit per pixel)
BoxRadiusAfterMove(radius, px, py) ==
    Clamp(radius + 10 * px - 10 * py, 3 * One, 15 * One)

\* StencilApp::OnMouseMove
OnMouseMove(btnState, x, y) ==
    /\ pc = "idle"
    /\ \E last \in LastMousePositions :
          LET px == x - last[1]
              py == y - last[2]
          IN  IF "MK_LBUTTON" \in btnState
              THEN /\ mTheta' = mTheta + QuarterDegreesToRadians(px)
                   /\ ThetaInWindow(mTheta', CameraTheta)
                   /\ mPhi' = PhiAfterMove(mPhi, QuarterDegreesToRadians(py))
                   /\ mRadius' = mRadius
              ELSE IF "MK_RBUTTON" \in btnState
              THEN /\ mRadius' = RadiusAfterMove(mRadius, px, py)
                   /\ UNCHANGED <<mTheta, mPhi>>
              ELSE UNCHANGED <<mTheta, mPhi, mRadius>>
    /\ mLastMousePos' = <<x, y>>
    /\ mouseEvent' = MouseEvent("move", btnState, x, y)
    /\ UNCHANGED <<cpuVars, sceneVars, gpuVars, bufferVars, drawStamps, mObjectCB>>

\* BoxApp::OnMouseMove
BoxOnMouseMove(btnState, x, y) ==
    /\ pc = "box_idle"
    /\ \E last \in LastMousePositions :
          LET px == x - last[1]
              py == y - last[2]
          IN  IF "MK_LBUTTON" \in btnState
              THEN /\ mTheta' = mTheta + QuarterDegreesToRadians(px)
                   /\ ThetaInWindow(mTheta', BoxCameraTheta)
                   /\ mPhi' = PhiAfterMove(mPhi, QuarterDegreesToRadians(py))
                   /\ mRadius' = mRadius
              ELSE IF "MK_RBUTTON" \in btnState
              THEN /\ mRadius' = BoxRadiusAfterMove(mRadius, px, py)
                   /\ UNCHANGED <<mTheta, mPhi>>
              ELSE UNCHANGED <<mTheta, mPhi, mRadius>>
    /\ mLastMousePos' = <<x, y>>
    /\ mouseEvent' = MouseEvent("move", btnState, x, y)
    /\ UNCHANGED <<cpuVars, sceneVars, gpuVars, bufferVars, drawStamps, mObjectCB>>

\* the mouse messages of either program, once its window is up
MouseNext ==
    \/ Initialize
    \/ BoxInitialize
    \/ BoxFlushWait
    \/ GPUExecute
    \/ \E b \in SUBSET Buttons : \E x \in MouseCoords : \E y \in MouseCoords :
          OnMouseDown(b, x, y)
    \/ \E b \in SUBSET Buttons : \E x \in MouseCoords : \E y \in MouseCoords :
          OnMouseMove(b, x, y)
    \/ \E b \in SUBSET Buttons : \E x \in MouseCoords : \E y \in MouseCoords :
          BoxOnMouseMove(b, x, y)
    \/ Destructor
SpecMouse == (Init \/ BoxInit) /\ [][MouseNext]_vars

\* ------------------------------------------------------------------ C1
\* C1: whenever Update has passed its fence test, and while the following
\* Draw resets the allocator and records, the current frame resource's
\* Fence is 0 or the GPU's completed value has reached it; and no command
\* list recorded with that frame resource is still in the queue.
FenceGuardsFrameResource ==
    UsingFrameResource =>
        /\ mCurrFrameResource \in FrameResourceIds
        /\ \/ Fence[mCurrFrameResource] = 0
           \/ gpuCompleted >= Fence[mCurrFrameResource]
        /\ PendingLists(mCurrFrameResource) = {}

\* a frame resource that was submitted before is written again, after the
\* CPU had to wait for it
ReusedAfterWait ==
    /\ pc = "draw_record"
    /\ Fence[mCurrFrameResource] > 0
    /\ blocked = 1

\* ------------------------------------------------------------------ C2
\* C2: the index stays in 0..2, the first frame uses slot 1, every frame
\* uses the slot after the previous frame's, mCurrFrameResource is the
\* slot of that index once Update has run, three consecutive frames use
\* three different slots and two frames share a slot exactly when they are
\* a multiple of three frames apart.
FrameResourceRing ==
    /\ mCurrFrameResourceIndex \in 0 .. 2
    /\ Cardinality(FrameResourceIds) = 3
    /\ frames = <<>> =>
          /\ mCurrFrameResource = NullFrameResource
          /\ mCurrFrameResourceIndex = 0
    /\ frames # <<>> =>
          /\ frames[1] = 1
          /\ mCurrFrameResourceIndex = frames[Len(frames)]
          /\ mCurrFrameResource = mCurrFrameResourceIndex
    /\ \A n \in 1 .. Len(frames) : \A m \in 1 .. Len(frames) :
          /\ m = n + 1 => frames[m] = (frames[n] + 1) % 3
          /\ (m > n /\ m <= n + 2) => frames[m] # frames[n]
          /\ (frames[m] = frames[n]) <=> ((m - n) % 3 = 0)

\* a fourth frame has begun: the first frame's slot is in use again
SlotReused ==
    /\ Len(frames) >= 4
    /\ frames[4] = frames[1]

\* ------------------------------------------------------------------ C3
\* C3: inside a frame (from the start of Update to the end of Draw) the CPU
\* can be blocked at one place only, the fence wait of Update, and only
\* while the current frame resource's Fence is above 0 and above the
\* completed value; that wait is entered at most once per frame and never
\* in the first three frames; no step of Draw waits for the GPU.
SingleFenceWait ==
    /\ (pc \in {"upd_wait", "upd_write", "draw_reset", "draw_record", "draw_submit"}
        /\ ~ ENABLED CpuStep) =>
          /\ pc = "upd_wait"
          /\ Fence[mCurrFrameResource] > 0
          /\ gpuCompleted < Fence[mCurrFrameResource]
    /\ pc = "upd_wait" =>
          /\ Fence[mCurrFrameResource] > 0
          /\ Len(frames) > gNumFrameResources
          /\ blocked = 1
    /\ blocked \in 0 .. 1
    /\ pc \in {"draw_reset", "draw_record", "draw_submit"} => ENABLED CpuStep

\* the CPU is blocked in Update's wait
CpuBlockedOnFence ==
    /\ pc = "upd_wait"
    /\ gpuCompleted < Fence[mCurrFrameResource]
    /\ ~ ENABLED CpuStep

\* ------------------------------------------------------------------ C4
\* C4: every HRESULT that failed was thrown as the DxException that ends
\* the program: once a call has failed the program is being torn down or
\* has returned from WinMain, and the failed call is the one reported.
HResultFailuresReachWinMain ==
    failed # {} =>
        /\ pc \in {"destroy", "exited"}
        /\ failed = {exception}

\* ------------------------------------------------------------------ C5
DrawPositions(cmds) == {k \in 1 .. Len(cmds) : cmds[k].op = "DrawRenderItems"}

LayersDrawn(cmds) ==
    LET draws == SelectSeq(cmds, LAMBDA c : c.op = "DrawRenderItems")
    IN  [k \in 1 .. Len(draws) |-> draws[k].arg[1]]

BarrierPositions(cmds, before, after) ==
    {k \in 1 .. Len(cmds) :
        cmds[k].op = "ResourceBarrier" /\ cmds[k].arg = <<before, after>>}

ClearPositions(cmds) ==
    {k \in 1 .. Len(cmds) :
        cmds[k].op \in {"ClearRenderTargetView", "ClearDepthStencilView"}}

\* C5: whatever Draw has recorded draws the five layers once each in the
\* order Opaque, Mirrors, Reflected, Transparent, Shadow, after the
\* PRESENT->RENDER_TARGET barrier and the two clears and before the
\* RENDER_TARGET->PRESENT barrier, which ends the recording; and when Draw
\* reaches ExecuteCommandLists and Present the list is recorded and closed.
LayersInFixedOrder ==
    LET cmds == mCommandList.cmds
        toRenderTarget == BarrierPositions(cmds, "PRESENT", "RENDER_TARGET")
        toPresent == BarrierPositions(cmds, "RENDER_TARGET", "PRESENT")
    IN  /\ cmds # <<>> =>
              /\ LayersDrawn(cmds) =
                    <<"Opaque", "Mirrors", "Reflected", "Transparent", "Shadow">>
              /\ Cardinality(toRenderTarget) = 1
              /\ Cardinality(ClearPositions(cmds)) = 2
              /\ toPresent = {Len(cmds)}
              /\ \A a \in toRenderTarget : \A c \in ClearPositions(cmds) :
                    \A d \in DrawPositions(cmds) : \A b \in toPresent :
                        a < c /\ c < d /\ d < b
        /\ pc = "draw_record" => mCommandList.open /\ cmds = <<>>
        /\ pc = "draw_submit" =>
              /\ cmds # <<>>
              /\ ~ mCommandList.open
              /\ mCommandList.alloc = mCurrFrameResource

\* the second frame's command list is recorded and closed, not yet executed
SecondListRecorded ==
    /\ pc = "draw_submit"
    /\ Len(frames) = 2
    /\ Len(mCommandList.cmds) > 0

\* ------------------------------------------------------------------ C6
\* C6: once Update has returned, both pass-constant elements of the current
\* frame resource hold the constants computed in that Update: element 0
\* the main pass, element 1 the reflected pass, with the transposed view
\* and projection of this frame.
PassConstantsWrittenForFrame ==
    pc \in {"draw_reset", "draw_record", "draw_submit"} =>
        /\ mMainPassCB.View = SymTranspose(mView)
        /\ mMainPassCB.Proj = SymTranspose(mProj)
        /\ PassCB[mCurrFrameResource][0] = mMainPassCB
        /\ PassCB[mCurrFrameResource][1] = [mMainPassCB EXCEPT !.Reflected = TRUE]

\* ------------------------------------------------------------------ C7
Min(a, b) == IF a < b THEN a ELSE b

\* the frame resources whose element of item e holds e's World and
\* TexTransform, each transposed
HoldersOf(e) ==
    {fr \in FrameResourceIds :
        LET c == ObjectCB[fr][ObjCBIndex[e]]
        IN  /\ c # UninitObject
            /\ \A i \in Rows : \A j \in Rows :
                  /\ c.World[i][j] = World[e][j][i]
                  /\ c.TexTransform[i][j] = TexTransform[j][i]}

\* C7: every counter stays within 0..gNumFrameResources; an item that is
\* never marked again has been copied into exactly as many frame resources
\* as its counter has gone down, one per Update and each a different one
\* (the slots of the first three frames), the others still unwritten; when
\* the counter is 0 all three hold the item's matrices.
DirtyItemReachesEveryFrameResource ==
    /\ \A e \in Items : NumFrameDirety[e] \in 0 .. gNumFrameResources
    /\ \A e \in StaticItems :
          /\ Cardinality(HoldersOf(e)) = gNumFrameResources - NumFrameDirety[e]
          /\ \A fr \in FrameResourceIds \ HoldersOf(e) :
                ObjectCB[fr][ObjCBIndex[e]] = UninitObject
          /\ NumFrameDirety[e] = 0 => HoldersOf(e) = FrameResourceIds
          /\ pc \in {"draw_reset", "draw_record", "draw_submit", "idle"} =>
                /\ NumFrameDirety[e] = Max(gNumFrameResources - Len(frames), 0)
                /\ HoldersOf(e) =
                      {frames[n] : n \in 1 .. Min(Len(frames), gNumFrameResources)}

\* the static item, with a World that is not its own transpose, is clean
\* and present in all three frame resources
StaticItemEverywhere ==
    \E e \in StaticItems :
        /\ NumFrameDirety[e] = 0
        /\ World[e] # XMMatrixTranspose(World[e])
        /\ HoldersOf(e) = FrameResourceIds
        /\ Len(frames) > gNumFrameResources

\* ------------------------------------------------------------------ C8
\* C8: a material's counter has gone down only by as many as there are
\* frame resources whose material buffer holds its constants, so that it
\* is 0 only when all three hold them.
MaterialWrittenBeforeClean ==
    \A m \in Materials :
        Cardinality({fr \in FrameResourceIds :
                        MaterialCB[fr][m] = MaterialConstantsOf(m)})
            >= gNumFrameResources - NumFramesDirty[m]

\* ------------------------------------------------------------------ C9
\* the pipeline state, stencil reference and pass constants in effect at
\* every DrawRenderItems when the GPU runs the commands in order
RECURSIVE BindingsAtDraws(_, _, _)
BindingsAtDraws(cmds, st, acc) ==
    IF cmds = <<>> THEN acc
    ELSE LET c == Head(cmds)
         IN  CASE c.op = "SetPipelineState" ->
                    BindingsAtDraws(Tail(cmds), [st EXCEPT !.pso = c.arg[1]], acc)
               [] c.op = "OMSetStencilRef" ->
                    BindingsAtDraws(Tail(cmds), [st EXCEPT !.stencilRef = c.arg[1]], acc)
               [] c.op = "SetGraphicsRootConstantBufferView" ->
                    BindingsAtDraws(Tail(cmds),
                                    [st EXCEPT !.pass = <<c.arg[2], c.arg[3]>>], acc)
               [] c.op = "DrawRenderItems" ->
                    BindingsAtDraws(Tail(cmds), st,
                                    Append(acc, [layer |-> c.arg[1], pso |-> st.pso,
                                                 stencilRef |-> st.stencilRef,
                                                 pass |-> st.pass]))
               [] OTHER -> BindingsAtDraws(Tail(cmds), st, acc)

\* C9: in the list Draw has recorded, Opaque is drawn with the opaque
\* pipeline state and the main pass constants (element 0 of the current
\* frame resource's pass buffer), Mirrors with stencil reference 1 and
\* markStencilMirrors, Reflected with stencil reference 1,
\* drawStencilReflections and the reflected pass constants (element 1),
\* Transparent and Shadow with stencil reference 0, their own pipeline
\* state and the main pass constants again.
LayerBindings ==
    pc = "draw_submit" =>
        LET fr == mCurrFrameResource
            b == BindingsAtDraws(mCommandList.cmds,
                                 [pso |-> mCommandList.pso, stencilRef |-> 0,
                                  pass |-> <<>>], <<>>)
        IN  /\ Len(b) = 5
            /\ b[1] = [layer |-> "Opaque", pso |-> "opaque",
                       stencilRef |-> 0, pass |-> <<fr, 0>>]
            /\ b[2] = [layer |-> "Mirrors", pso |-> "markStencilMirrors",
                       stencilRef |-> 1, pass |-> <<fr, 0>>]
            /\ b[3] = [layer |-> "Reflected", pso |-> "drawStencilReflections",
                       stencilRef |-> 1, pass |-> <<fr, 1>>]
            /\ b[4] = [layer |-> "Transparent", pso |-> "transparent",
                       stencilRef |-> 0, pass |-> <<fr, 0>>]
            /\ b[5] = [layer |-> "Shadow", pso |-> "shadow",
                       stencilRef |-> 0, pass |-> <<fr, 0>>]
            /\ \A k \in 1 .. 5 :
                  /\ b[k].stencilRef = 1 <=> b[k].layer \in {"Mirrors", "Reflected"}
                  /\ b[k].pass[2] = 1 <=> b[k].layer = "Reflected"

\* a list recorded with frame resource 0 (the third frame's) is complete
ThirdListBound ==
    /\ pc = "draw_submit"
    /\ mCurrFrameResource = 0
    /\ Len(mCommandList.cmds) > 0

\* ----------------------------------------------------------------- C10
FencesInOrder ==
    /\ \A a \in FrameResourceIds : \A b \in FrameResourceIds :
          (a # b /\ Fence[a] > 0) => Fence[a] # Fence[b]
    /\ \A a \in FrameResourceIds : Fence[a] <= mCurrentFence
    /\ (pc = "idle" /\ frames # <<>>) =>
          /\ Fence[mCurrFrameResource] > 0
          /\ Fence[mCurrFrameResource] = lastSignal.value
          /\ \A a \in FrameResourceIds : Fence[a] <= Fence[mCurrFrameResource]
    /\ \A a \in FrameResourceIds :
          (Fence[a] > 0 /\ gpuCompleted >= Fence[a]) =>
              \A k \in PendingLists(a) : gpuQueue[k].value # Fence[a]

DrawAdvancesFence ==
    /\ mCurrentFence' >= mCurrentFence
    /\ Fence' # Fence => (pc = "draw_submit" /\ pc' = "idle")
    /\ (pc = "draw_submit" /\ pc' = "idle") =>
          LET fr == mCurrFrameResource
              n == Len(gpuQueue)
          IN  /\ mCurrentFence' = mCurrentFence + 1
              /\ Fence'[fr] = mCurrentFence'
              /\ \A a \in FrameResourceIds \ {fr} : Fence'[a] = Fence[a]
              /\ lastSignal'.value = mCurrentFence'
              /\ Len(gpuQueue') > n
              /\ gpuQueue'[n + 1] = ListEntry(fr, mCurrentFence')
              /\ lastSignal'.hr = "S_OK" =>
                    gpuQueue' = gpuQueue \o <<ListEntry(fr, mCurrentFence'),
                                             SignalEntry(mCurrentFence')>>
    /\ (pc = "draw_submit" /\ pc' = "destroy") =>
          \* Present failed after ExecuteCommandLists, before the fence moved
          /\ Len(gpuQueue') = Len(gpuQueue) + 1
          /\ mCurrentFence' = mCurrentFence /\ Fence' = Fence

\* C10: a Draw that returns has put its command list on the queue, then
\* raised mCurrentFence by exactly one, stored the new value in the
\* current frame resource's Fence and passed the same value to Signal,
\* which (when it succeeds) follows the list on the queue. mCurrentFence
\* never goes down, no two frame resources hold the same non-zero Fence,
\* after a Draw the current frame resource holds the largest Fence, and
\* once the completed value has reached a frame resource's Fence the list
\* stamped with it has left the queue.
FenceAdvancesOncePerDraw == [] FencesInOrder /\ [][DrawAdvancesFence]_vars

\* all three frame resources have been submitted and the GPU has reached
\* the fence of the latest frame
GpuCaughtUp ==
    /\ pc = "idle"
    /\ \A a \in FrameResourceIds : Fence[a] > 0
    /\ lastSignal.hr = "S_OK"
    /\ gpuCompleted >= Fence[mCurrFrameResource]

\* ------------------------------------------------------------------ C11
WritePositions(cmds) == {k \in 1 .. Len(cmds) : cmds[k].op \in RenderTargetWrites}

\* the recorded list takes the back buffer to RENDER_TARGET before its
\* first clear or draw and back to PRESENT as its last command
RecordedInProtocol(cmds) ==
    LET toRenderTarget == BarrierPositions(cmds, "PRESENT", "RENDER_TARGET")
        toPresent == BarrierPositions(cmds, "RENDER_TARGET", "PRESENT")
    IN  /\ Cardinality(toRenderTarget) = 1
        /\ toPresent = {Len(cmds)}
        /\ WritePositions(cmds) # {}
        /\ \A a \in toRenderTarget : \A w \in WritePositions(cmds) :
              \A b \in toPresent : a < w /\ w < b

BuffersInProtocol ==
    /\ mCurrBackBuffer \in BackBuffers
    /\ \A b \in BackBuffers : mSwapChainBuffer[b] = "PRESENT"
    /\ mCommandList.cmds # <<>> => RecordedInProtocol(mCommandList.cmds)
    /\ pc \in {"draw_submit", "box_submit"} =>
          mCommandList.cmds # <<>> /\ ~ mCommandList.open
    /\ rendered # NothingRendered =>
          /\ rendered.buffer \in BackBuffers
          /\ Cardinality(rendered.barriers) = 2
          /\ \A r \in rendered.barriers : r.declared = r.actual
          /\ rendered.writes = {"RENDER_TARGET"}
          /\ rendered.presented \in {"PRESENT", "none"}

PresentAdvancesBackBuffer ==
    pc \in {"draw_submit", "box_submit"} /\ pc' \in {"idle", "box_flush"} =>
        /\ rendered'.buffer = mCurrBackBuffer
        /\ rendered'.presented = "PRESENT"
        /\ mCurrBackBuffer' = (mCurrBackBuffer + 1) % SwapChainBufferCount

\* C11: in both programs the back buffer of a frame goes PRESENT ->
\* RENDER_TARGET -> PRESENT: the recorded list transitions it to
\* RENDER_TARGET before its first clear or draw and back to PRESENT as its
\* last command, before Close, ExecuteCommandLists and Present; every
\* barrier the queue runs declares the state the buffer is actually in,
\* every clear and draw finds it in RENDER_TARGET, every Present finds it in
\* PRESENT, and a Draw that presents advances mCurrBackBuffer to
\* (mCurrBackBuffer + 1) mod SwapChainBufferCount.
BackBufferProtocol == [] BuffersInProtocol /\ [][PresentAdvancesBackBuffer]_vars

\* the second buffer has been rendered and presented and the index has
\* wrapped around to the first
SecondBufferPresented ==
    /\ pc \in {"idle", "box_idle"}
    /\ rendered.buffer = 1
    /\ rendered.presented = "PRESENT"
    /\ mCurrBackBuffer = 0

\* ------------------------------------------------------------------ C12
\* command lists submitted to the queue that the GPU has not run yet
ListsInFlight ==
    Cardinality({k \in 1 .. Len(gpuQueue) : gpuQueue[k].kind = "list"})

\* the GPU has run everything submitted so far, the last Signal included
GpuIdle == gpuQueue = <<>> /\ gpuCompleted = mCurrentFence

BoxGpuIdleOutsideFlush ==
    /\ pc \in {"box_idle", "box_draw", "box_record", "box_submit"} => GpuIdle
    /\ ListsInFlight <= 1

BoxFrameEndsWithFlush ==
    pc # "box_idle" /\ pc' = "box_idle" =>
        /\ pc \in {"box_init_flush", "box_flush"}
        /\ gpuCompleted >= mCurrentFence
        /\ gpuQueue = <<>>

\* C12: in BoxApp, Initialize and every Draw hand over to the message loop
\* only through the wait of FlushCommandQueue, so whenever Update writes
\* the object constant buffer and whenever Draw resets mDirectCmdListAlloc
\* and records, the queue is empty and the fence has reached mCurrentFence;
\* at most one command list is ever submitted and not yet run.
BoxAllocatorResetAfterFlush ==
    [] BoxGpuIdleOutsideFlush /\ [][BoxFrameEndsWithFlush]_vars

\* the second Draw is about to reset the allocator the first one used
BoxSecondDrawResets ==
    /\ pc = "box_draw"
    /\ rendered.presented = "PRESENT"
    /\ GpuIdle

\* ------------------------------------------------------------------ C13
StencilPositions == {"start", "idle"}
BoxPositions == {"box_start", "box_init_flush", "box_idle"}

OrbitWithinLimits ==
    /\ pc \in StencilPositions \cup BoxPositions =>
          100 <= mPhi /\ mPhi <= Pi - 100
    /\ pc \in StencilPositions => 5 * One <= mRadius /\ mRadius <= 150 * One
    /\ pc \in BoxPositions => 3 * One <= mRadius /\ mRadius <= 15 * One

\* what a step that handles a mouse move may change
MouseMoveEffect ==
    mouseEvent'.kind = "move" /\ pc \in {"idle", "box_idle"} =>
        /\ "MK_LBUTTON" \in mouseEvent'.btnState => mRadius' = mRadius
        /\ "MK_LBUTTON" \notin mouseEvent'.btnState =>
              mTheta' = mTheta /\ mPhi' = mPhi
        /\ mouseEvent'.btnState = {} => mRadius' = mRadius
        /\ mLastMousePos' = <<mouseEvent'.x, mouseEvent'.y>>
        /\ UNCHANGED <<cpuVars, sceneVars, gpuVars, bufferVars, drawStamps, mObjectCB>>

\* C13: after any sequence of mouse messages mPhi is within [0.1, Pi - 0.1]
\* in both programs and mRadius within [5, 150] in StencilApp and [3, 15]
\* in BoxApp; a move with the left button held (alone or with the right
\* one) leaves mRadius as it is, a move without the left button leaves
\* mTheta and mPhi as they are, a move with no button leaves all three,
\* and every move stores the message's position in mLastMousePos and
\* changes nothing else.
OrbitCameraStaysInLimits == [] OrbitWithinLimits /\ [][MouseMoveEffect]_vars

\* both clamps of StencilApp have acted: mPhi is at its upper limit and
\* mRadius at its lower limit after a right-button move
OrbitAtLimits ==
    /\ pc = "idle"
    /\ mPhi = Pi - 100
    /\ mRadius = 5 * One
    /\ mouseEvent.kind = "move"
    /\ mouseEvent.btnState = {"MK_RBUTTON"}

\* ------------------------------------------------------------------ C14
\* the object constants of the three skull items in frame resource fr all
\* come from the skull translation t
SkullConstantsFrom(fr, t) ==
    \A e \in SkullItems :
        ObjectCB[fr][ObjCBIndex[e]] = ObjectConstantsOf(SkullWorlds[t][e])

SkullConstantsUnwritten(fr) ==
    \A e \in SkullItems : ObjectCB[fr][ObjCBIndex[e]] = UninitObject

\* C14: mSkullTranslation.y is never negative; once OnKeyboardInput has
\* run, the World matrices of the skull, its reflection and its shadow are
\* the three matrices of the current mSkullTranslation; the three items
\* always carry the same NumFrameDirety, which is gNumFrameResources from
\* OnKeyboardInput to UpdateObjectCBs in every frame, whatever keys are
\* down; and in every frame resource the object constants of the three
\* items are either all unwritten or all derived from one translation.
SkullItemsInStep ==
    /\ mSkullTranslation[2] >= 0
    /\ mSkullTranslation \in SkullTranslations
    /\ frames # <<>> =>
          \A e \in SkullItems : World[e] = SkullWorlds[mSkullTranslation][e]
    /\ \A e \in SkullItems : NumFrameDirety[e] = NumFrameDirety["skull"]
    /\ pc \in {"upd_wait", "upd_write"} =>
          NumFrameDirety["skull"] = gNumFrameResources
    /\ \A fr \in FrameResourceIds :
          \/ SkullConstantsUnwritten(fr)
          \/ \E t \in SkullTranslations : SkullConstantsFrom(fr, t)
    /\ pc \in {"draw_reset", "draw_record", "draw_submit"} =>
          SkullConstantsFrom(mCurrFrameResource, mSkullTranslation)

\* the skull has been moved down to the floor between two frames: two
\* frame resources hold the constants of two different translations
SkullMovedBetweenFrames ==
    /\ pc = "draw_reset"
    /\ mSkullTranslation[2] = 0
    /\ \E fr \in FrameResourceIds : \E t \in SkullTranslations :
          /\ fr # mCurrFrameResource
          /\ t # mSkullTranslation
          /\ SkullConstantsFrom(fr, t)

\* ------------------------------------------------------------------ C15
\* a Signal that carries at least value v is in the queue, or the fence
\* has already reached v
SignalledOrCompleted(v) ==
    \/ gpuCompleted >= v
    \/ \E k \in 1 .. Len(gpuQueue) :
          gpuQueue[k].kind = "signal" /\ gpuQueue[k].value >= v

\* C15: whenever Update waits on the fence, the value it waits for has
\* been signalled on the command queue by an earlier Draw: the Signal is
\* still in the queue or the GPU has already reached it, so the wait ends
\* as soon as the GPU has run what was submitted; the CPU never waits for
\* a value no Signal carries.
WaitedFenceWasSignalled ==
    pc = "upd_wait" => SignalledOrCompleted(Fence[mCurrFrameResource])

\* ------------------------------------------------------------------ C16
\* frames Draw has submitted whose fence value the GPU has not completed
FramesInFlight == Cardinality({v \in drawStamps : v > gpuCompleted})

\* C16: the CPU is never more than gNumFrameResources frames ahead of the
\* GPU: the number of frames submitted by Draw whose fence value is not
\* yet completed never exceeds gNumFrameResources, and it is at most
\* gNumFrameResources - 1 from the moment Update's fence test lets the
\* frame through until Draw submits it.
CpuAtMostThreeFramesAhead ==
    /\ FramesInFlight <= gNumFrameResources
    /\ pc \in {"upd_write", "draw_reset", "draw_record", "draw_submit"} =>
          FramesInFlight <= gNumFrameResources - 1

\* three submitted frames are still incomplete and the CPU waits in Update
\* for the oldest of them
ThreeFramesInFlight ==
    /\ pc = "upd_wait"
    /\ FramesInFlight = gNumFrameResources

\* Update has returned with exactly two frames still incomplete
UpdateReturnedTwoInFlight ==
    /\ pc = "draw_reset"
    /\ FramesInFlight = gNumFrameResources - 1
    /\ Len(frames) > gNumFrameResources

====
